---------------------------- MODULE Spec2Model ----------------------------
(***************************************************************************)
(* PyEnzyme: the unit-consistency pass ThinLayerCopasi.unifyUnits of the   *)
(* examples thin layer, over an EnzymeML document (species tables, unit    *)
(* dictionary, one reaction with its educt/product/modifier lists, the     *)
(* Replicate objects the elements reference, the concentration registry).  *)
(* Further down: importEnzymeML of both thin layers with the experiments  *)
(* and fit items it and run_parameter_estimation add (SpecImport), the     *)
(* packaged unifyUnits next to the examples one (SpecLayers), the          *)
(* Measurement object (SpecMeasurement, SpecExport, SpecAddData) and the   *)
(* REST handlers exportData.get and Validate.get (SpecRest).  Each         *)
(* specification leaves the variables of the others at their initial       *)
(* values.                                                                 *)
(*                                                                         *)
(* Concentration values are Python floats.  They are modelled as exact     *)
(* decimals m * 10^e (a record [m, e]); the pass only ever multiplies by   *)
(* a power of ten, which is an addition on e.  Rounding is not modelled.   *)
(***************************************************************************)
EXTENDS Integers, Sequences, FiniteSets, TLC

\* The most reaction elements (educts + products + modifiers) of a document.
MaxElems == 2
\* The most calls of unifyUnits in one behaviour.
MaxRuns == 2

(***************************************************************************)
(* Values                                                                  *)
(***************************************************************************)
Val(m) == [m |-> m, e |-> 0]

\* x * (10 ** n): a zero stays zero, anything else moves n decades.
Times10(v, n) == IF v.m = 0 THEN v ELSE [v EXCEPT !.e = @ + n]

(***************************************************************************)
(* The unit dictionary: unit id -> UnitDef (id, base units).  A base unit  *)
(* is the tuple (kind, exponent, scale, multiplier); the pass reads its    *)
(* Python items 0, 1 and 2, here 1, 2 and 3.                               *)
(***************************************************************************)
Kinds == {"mole", "litre"}
UnitIds == {"u0", "u1", "u2"}

UnitDict ==
    [u \in UnitIds |->
        CASE u = "u0" -> [id |-> "u0",      \* mole / l
                          units |-> << <<"mole", 1, 0, 1>>, <<"litre", -1, 0, 1>> >>]
          [] u = "u1" -> [id |-> "u1",      \* mmole / ml
                          units |-> << <<"mole", 1, -3, 1>>, <<"litre", -1, -3, 1>> >>]
          [] u = "u2" -> [id |-> "u2",      \* g / l: no mole component
                          units |-> << <<"gram", 1, 0, 1>>, <<"litre", -1, 0, 1>> >>]]

\* [ tup for tup in units if tup[0] == kind ]
OfKind(units, kind) == SelectSeq(units, LAMBDA tup : tup[1] = kind)

HasKind(u, kind) == OfKind(UnitDict[u].units, kind) # << >>

\* [ tup[1] for tup in units if tup[0] == kind ][0]
ExponentOf(u, kind) == OfKind(UnitDict[u].units, kind)[1][2]

\* [ tup[2] for tup in units if tup[0] == kind ][0]
ScaleOf(u, kind) == OfKind(UnitDict[u].units, kind)[1][3]

(***************************************************************************)
(* Species: reactants have ids s<N>, proteins p<N>.                        *)
(***************************************************************************)
ReactantIds == {"s0", "s1"}
ProteinIds == {"p0"}
SpeciesIds == ReactantIds \cup ProteinIds
\* A species whose id begins with neither letter.
OtherIds == {"x0"}

\* The reactant a call names as its target.  s0 and s1 are interchangeable in
\* the documents a behaviour starts from, so one target reaches every case.
Targets == {"s0"}

\* tup[0][0]: the first character of a species id
Prefix(id) == IF id \in ReactantIds THEN "s" ELSE IF id \in ProteinIds THEN "p" ELSE "x"

VARIABLES
    reactant_dict,   \* enzmldoc: reactant id -> [unit, init_conc]
    protein_dict,    \* enzmldoc: protein id -> [unit, init_conc]
    reaction,        \* [educts, products, modifiers]: lists of element tuples
    heap,            \* every Replicate object ever constructed, by address
    conc_registry,   \* enzmldoc: the pairs registered through addConc, in order
    next_oid,        \* identity of the next element tuple to be constructed
    frame,           \* the running call of unifyUnits, or its outcome
    pre,             \* history: the document as it was when the call began
    runs,            \* number of calls begun
    imp,             \* a run of importEnzymeML: thin layer, position, what it built
    meas,            \* a Measurement object and the outcome of the last call on it
    rest             \* the REST handlers: requests in flight, files on disk

vars == <<reactant_dict, protein_dict, reaction, heap, conc_registry,
          next_oid, frame, pre, runs, imp, meas, rest>>

doc == <<reactant_dict, protein_dict, reaction, heap, conc_registry, next_oid>>


(***************************************************************************)
(* Replicate objects.  Replicate(...) is the constructor as unifyUnits     *)
(* calls it: six arguments, no data series.                                *)
(***************************************************************************)
Replicate(replica, reactant, type_, data_unit, time_unit, init_conc) ==
    [replica |-> replica, reactant |-> reactant, type |-> type_,
     data_unit |-> data_unit, time_unit |-> time_unit, init_conc |-> init_conc,
     data |-> << >>, time |-> << >>]

\* A replicate as the reader builds it: constructed, then given its series.
ParsedReplicate(replica, reactant, data_unit, init_conc) ==
    [Replicate(replica, reactant, "conc", data_unit, "s", init_conc)
        EXCEPT !.data = << Val(1), Val(2) >>, !.time = << 0, 1 >>]

(***************************************************************************)
(* The documents a behaviour starts from: every choice of the three role   *)
(* lists with at most MaxElems elements in all, every assignment of units  *)
(* to the species.  Element number g (educts first, then products, then    *)
(* modifiers) has stoichiometry g, PerElem replicates and PerElem initial- *)
(* concentration pairs; the r-th of them carries the species' unit shifted *)
(* r-1 places in UnitOrder, so the first agrees with the species and the   *)
(* others do not.                                                          *)
(***************************************************************************)
\* Replicates, and initial-concentration pairs, per reaction element.
PerElem == 2

UnitOrder == << "u0", "u1", "u2" >>
UnitIndex(u) == CHOOSE k \in 1..Len(UnitOrder) : UnitOrder[k] = u
Shift(u, n) == UnitOrder[((UnitIndex(u) - 1 + n) % Len(UnitOrder)) + 1]

IdSeqsOver(ids) == UNION { [1..n -> ids] : n \in 0..MaxElems }
ShapesOver(ids) == { sh \in IdSeqsOver(ids) \X IdSeqsOver(ids) \X IdSeqsOver(ids) :
                        Len(sh[1]) + Len(sh[2]) + Len(sh[3]) <= MaxElems }
IdSeqs == IdSeqsOver(SpeciesIds)
Shapes == ShapesOver(SpeciesIds)

InitConcOf(id) == CASE id = "s0" -> Val(5) [] id = "s1" -> Val(7) [] OTHER -> Val(3)

MkElement(id, g, ua) ==
    [id |-> id, stoich |-> g, constant |-> (g % 2 = 1),
     repls |-> [r \in 1..PerElem |-> (g - 1) * PerElem + r],
     inits |-> [r \in 1..PerElem |-> << Val(r - 1), Shift(ua[id], r - 1) >>],
     oid |-> g]

MkList(ids, offset, ua) == [k \in 1..Len(ids) |-> MkElement(ids[k], offset + k, ua)]

MkReaction(sh, ua) ==
    [educts |-> MkList(sh[1], 0, ua),
     products |-> MkList(sh[2], Len(sh[1]), ua),
     modifiers |-> MkList(sh[3], Len(sh[1]) + Len(sh[2]), ua)]

MkHeap(sh, ua) ==
    LET ids == sh[1] \o sh[2] \o sh[3]
    IN  [a \in 1..(Len(ids) * PerElem) |->
            LET g == ((a - 1) \div PerElem) + 1
                r == ((a - 1) % PerElem) + 1
            IN  ParsedReplicate(a, ids[g], Shift(ua[ids[g]], r - 1), InitConcOf(ids[g]))]

IdleFrame ==
    [pc |-> "idle", reactant |-> "none", kind |-> "none", unit |-> "none",
     exponent |-> 0, scale |-> 0, i |-> 0, j |-> 0, unit_r |-> "unbound",
     nu_scale |-> 0, outcome |-> "none"]

Snapshot ==
    [reactant_dict |-> reactant_dict, protein_dict |-> protein_dict,
     reaction |-> reaction, heap |-> heap, conc_registry |-> conc_registry,
     prev |-> [reactant |-> frame.reactant, kind |-> frame.kind,
               outcome |-> frame.outcome]]

\* Outside a run of importEnzymeML / with no Measurement / with no request.
NoImport == [pc |-> "none"]
NoMeasurement == [pc |-> "none"]
NoRequests == [pc |-> "none"]

\* A document whose species are ids: those not proteins are in the reactant table.
DocInit(ids) ==
    \E sh \in ShapesOver(ids), ua \in [ids -> UnitIds] :
        /\ reactant_dict = [id \in ids \ ProteinIds |->
                               [unit |-> ua[id], init_conc |-> InitConcOf(id)]]
        /\ protein_dict = [id \in ProteinIds |->
                               [unit |-> ua[id], init_conc |-> InitConcOf(id)]]
        /\ reaction = MkReaction(sh, ua)
        /\ heap = MkHeap(sh, ua)
        /\ conc_registry = << >>
        /\ next_oid = Len(sh[1]) + Len(sh[2]) + Len(sh[3]) + 1
        /\ frame = IdleFrame
        /\ pre = [reactant_dict |-> reactant_dict, protein_dict |-> protein_dict,
                  reaction |-> reaction, heap |-> heap,
                  conc_registry |-> conc_registry,
                  prev |-> [reactant |-> "none", kind |-> "none", outcome |-> "none"]]
        /\ runs = 0

Init ==
    /\ DocInit(SpeciesIds)
    /\ imp = NoImport
    /\ meas = NoMeasurement
    /\ rest = NoRequests


(***************************************************************************)
(* unifyUnits(reactant, reaction, enzmldoc, kind)                          *)
(***************************************************************************)
\* all_elems = [reaction.getEducts(), reaction.getProducts(), reaction.getModifiers()]
all_elems(r) == << r.educts, r.products, r.modifiers >>

\* The position the nested for loops reach next, from list i (0, 1, 2): the
\* first element of the first non-empty list from i on, or i = 3 at the end.
FirstFrom(r, i) ==
    IF \E n \in i..2 : all_elems(r)[n + 1] # << >>
    THEN [i |-> CHOOSE n \in i..2 : /\ all_elems(r)[n + 1] # << >>
                                    /\ \A m \in i..(n - 1) : all_elems(r)[m + 1] = << >>,
          j |-> 1]
    ELSE [i |-> 3, j |-> 1]

NextPos(r, i, j) ==
    IF j < Len(all_elems(r)[i + 1]) THEN [i |-> i, j |-> j + 1] ELSE FirstFrom(r, i + 1)

\* unit_r: the species' unit id through the reactant table for an s id,
\* through the protein table for a p id, else what the variable held.
UnitOf(rd, pd, id, unit_r) ==
    IF Prefix(id) = "s" THEN rd[id].unit
    ELSE IF Prefix(id) = "p" THEN pd[id].unit
    ELSE unit_r

\* Faulty variant of getId: the kind of the unit's first base unit, which is
\* no key of the unit dictionary.
getIdFirstKind(u) == UnitDict[u].units[1][1]

\* unit.getId(): the id of the target's unit definition
getId(u) == UnitDict[u].id

\* Faulty variant of nu_scale: the exponent is left out.
nu_scale_no_exponent(exponent_r, scale_r, scale) == scale_r - scale

\* nu_scale = exponent_r*( scale_r - scale )
nu_scale(exponent_r, scale_r, scale) == exponent_r * (scale_r - scale)

\* Faulty variant of MustRescale: every element is rewritten, whatever its nu_scale.
MustRescaleAlways(nu) == TRUE

\* if nu_scale != 0
MustRescale(nu) == nu # 0

\* Faulty variant of ResetSpecies: the species keeps its unit id.
ResetSpeciesKeepUnit(dict, id, unit_id, nu) ==
    [dict EXCEPT ![id] = [unit |-> @.unit, init_conc |-> Times10(@.init_conc, nu)]]

\* setSubstanceUnits( unit.getId() ); setInitConc( getInitConc()*(10**nu_scale) )
ResetSpecies(dict, id, unit_id, nu) ==
    [dict EXCEPT ![id] = [unit |-> unit_id, init_conc |-> Times10(@.init_conc, nu)]]

\* Replicate( repl.getReplica(), repl.getReactant(), repl.getType(),
\*            unit.getId(), repl.getTimeUnit(), repl.getInitConc()*(10**nu_scale) )
nu_repl(repl, unit_id, nu) ==
    Replicate(repl.replica, repl.reactant, repl.type, unit_id,
              repl.time_unit, Times10(repl.init_conc, nu))

\* Faulty variant of ResetReplicates: the existing Replicate objects are edited
\* in place and the element keeps referencing them.
ResetReplicatesInPlace(h, repls, unit_id, nu) ==
    [heap |-> [a \in DOMAIN h |->
                  IF \E k \in DOMAIN repls : repls[k] = a
                  THEN nu_repl(h[a], unit_id, nu) ELSE h[a]],
     repls |-> repls]

\* nu_repls = [ Replicate(...) for repl in tup[3] ]: new objects, in order.
ResetReplicates(h, repls, unit_id, nu) ==
    [heap |-> h \o [k \in 1..Len(repls) |-> nu_repl(h[repls[k]], unit_id, nu)],
     repls |-> [k \in 1..Len(repls) |-> Len(h) + k]]

\* enzmldoc.addConc( tup ): the pair enters the registry.
addConc(registry, tup) == Append(registry, tup)

\* Faulty variant of ResetInits: the rewritten pairs are given the unit id
\* of the target.
ResetInitsToTargetUnit(inits, nu, registry) ==
    LET nu_inits == [k \in 1..Len(inits) |->
                        << Times10(inits[k][1], nu), UnitDict[frame.unit].id >>]
    IN  [inits |-> nu_inits, registry |-> registry \o nu_inits]

\* Faulty variant of ResetInits: the pairs are rescaled and registered back to front.
ResetInitsReversed(inits, nu, registry) ==
    LET n == Len(inits)
        nu_inits == [k \in 1..n |->
                        << Times10(inits[n + 1 - k][1], nu), inits[n + 1 - k][2] >>]
    IN  [inits |-> nu_inits, registry |-> registry \o nu_inits]

\* The loop over tup[4] from its k-th pair on: nu_conc = initValue*(10**nu_scale),
\* nu_inits.append( (nu_conc, initUnit) ), enzmldoc.addConc( (nu_conc, initUnit) ).
RECURSIVE InitsLoop(_, _, _, _, _)
InitsLoop(inits, nu, k, nu_inits, registry) ==
    IF k > Len(inits) THEN [inits |-> nu_inits, registry |-> registry]
    ELSE LET nu_conc == Times10(inits[k][1], nu)
         IN  InitsLoop(inits, nu, k + 1,
                       Append(nu_inits, << nu_conc, inits[k][2] >>),
                       addConc(registry, << nu_conc, inits[k][2] >>))

ResetInits(inits, nu, registry) == InitsLoop(inits, nu, 1, << >>, registry)

\* reaction.getEduct( id, index=True ) and its product and modifier twins:
\* the index of the first element of the list with that species id.
getIndex(elems, id) ==
    CHOOSE k \in 1..Len(elems) :
        /\ elems[k].id = id
        /\ \A m \in 1..(k - 1) : elems[m].id # id

\* ( tup[0], tup[1], tup[2], nu_repls, nu_inits ): a new tuple object
elementTuple(tup, repls, inits, oid) ==
    [id |-> tup.id, stoich |-> tup.stoich, constant |-> tup.constant,
     repls |-> repls, inits |-> inits, oid |-> oid]

\* Faulty variant of ReplaceElement: the old element is removed and the
\* rewritten one appended.
ReplaceElementAtEnd(r, i, id, t) ==
    LET elems == all_elems(r)[i + 1]
        idx == getIndex(elems, id)
        moved == SubSeq(elems, 1, idx - 1) \o SubSeq(elems, idx + 1, Len(elems)) \o << t >>
    IN  CASE i = 0 -> [r EXCEPT !.educts = moved]
          [] i = 1 -> [r EXCEPT !.products = moved]
          [] i = 2 -> [r EXCEPT !.modifiers = moved]

\* reaction.getEducts()[ reaction.getEduct( tup[0], index=True ) ] = ( ... ),
\* and the same on the products for i == 1 and on the modifiers for i == 2.
ReplaceElement(r, i, id, t) ==
    CASE i = 0 -> [r EXCEPT !.educts[getIndex(r.educts, id)] = t]
      [] i = 1 -> [r EXCEPT !.products[getIndex(r.products, id)] = t]
      [] i = 2 -> [r EXCEPT !.modifiers[getIndex(r.modifiers, id)] = t]


\* The element the loops stand at, and what the pass reads for it.
Cur == all_elems(reaction)[frame.i + 1][frame.j]
CurUnit == UnitOf(reactant_dict, protein_dict, Cur.id, frame.unit_r)

\* Faulty variant of CurDelta: the other kind the two units share adds its
\* own exponent times scale difference.
CurDeltaAllKinds ==
    LET own == nu_scale(ExponentOf(CurUnit, frame.kind), ScaleOf(CurUnit, frame.kind),
                        frame.scale)
        shared == { k \in Kinds \ {frame.kind} : HasKind(CurUnit, k) /\ HasKind(frame.unit, k) }
    IN  IF shared = {} THEN own
        ELSE LET k == CHOOSE x \in shared : TRUE
             IN  own + nu_scale(ExponentOf(CurUnit, k), ScaleOf(CurUnit, k),
                                ScaleOf(frame.unit, k))

CurDelta == nu_scale(ExponentOf(CurUnit, frame.kind), ScaleOf(CurUnit, frame.kind),
                     frame.scale)

InLoop == frame.pc = "loop" /\ frame.i < 3

\* Lines 208-210 succeed: unit_r is bound and has a component of the kind.
\* (An id with neither prefix on the first element leaves unit_r unbound.)
Readable(u, kind) == u # "unbound" /\ HasKind(u, kind)

\* Lines 191-199: the reference unit of the target reactant; the lookup [0]
\* raises IndexError when the unit has no component of the kind.
Call(reactant, kind) ==
    /\ frame.pc = "idle"
    /\ runs < MaxRuns
    /\ LET unit == reactant_dict[reactant].unit
       IN  IF HasKind(unit, kind)
           THEN LET first == FirstFrom(reaction, 0)
                IN  frame' = [pc |-> "loop", reactant |-> reactant, kind |-> kind,
                              unit |-> unit, exponent |-> ExponentOf(unit, kind),
                              scale |-> ScaleOf(unit, kind), i |-> first.i,
                              j |-> first.j, unit_r |-> "unbound", nu_scale |-> 0,
                              outcome |-> "none"]
           ELSE frame' = [IdleFrame EXCEPT !.reactant = reactant, !.kind = kind,
                                           !.unit = unit, !.outcome = "raised"]
    /\ pre' = Snapshot
    /\ runs' = runs + 1
    /\ UNCHANGED doc

\* Faulty variant of ElemRaise: a missing kind counts as absent, no rescale,
\* on to the next element.
ElemAbsentSkip ==
    /\ InLoop
    /\ ~Readable(CurUnit, frame.kind)
    /\ LET nxt == NextPos(reaction, frame.i, frame.j)
       IN  frame' = [frame EXCEPT !.i = nxt.i, !.j = nxt.j, !.unit_r = CurUnit]
    /\ UNCHANGED <<doc, pre, runs>>

\* Faulty variant of ElemRaise: the IndexError is swallowed and the call
\* returns as if the pass had completed.
ElemAbsentReturn ==
    /\ InLoop
    /\ ~Readable(CurUnit, frame.kind)
    /\ frame' = [frame EXCEPT !.pc = "idle", !.outcome = "returned", !.unit_r = CurUnit]
    /\ UNCHANGED <<doc, pre, runs>>

\* Lines 205-210 for an element whose unit has no component of the kind:
\* IndexError leaves the call; what earlier elements changed stays changed.
\* (UnboundLocalError leaves it the same way when unit_r was never assigned.)
ElemRaise ==
    /\ InLoop
    /\ ~Readable(CurUnit, frame.kind)
    /\ frame' = [frame EXCEPT !.pc = "idle", !.outcome = "raised", !.unit_r = CurUnit]
    /\ UNCHANGED <<doc, pre, runs>>

\* Lines 205-214 for an element with nu_scale == 0: on to the next element.
ElemSkip ==
    /\ InLoop
    /\ Readable(CurUnit, frame.kind)
    /\ ~MustRescale(CurDelta)
    /\ LET nxt == NextPos(reaction, frame.i, frame.j)
       IN  frame' = [frame EXCEPT !.i = nxt.i, !.j = nxt.j, !.unit_r = CurUnit,
                                  !.nu_scale = CurDelta]
    /\ UNCHANGED <<doc, pre, runs>>

\* Lines 205-249 for an element with nu_scale != 0: the species, new
\* replicates, the rescaled pairs and their registration, the new tuple.
ElemRescale ==
    /\ InLoop
    /\ Readable(CurUnit, frame.kind)
    /\ MustRescale(CurDelta)
    /\ LET tup == Cur
           nu == CurDelta
           unit_id == getId(frame.unit)
           rr == ResetReplicates(heap, tup.repls, unit_id, nu)
           ri == ResetInits(tup.inits, nu, conc_registry)
           t == elementTuple(tup, rr.repls, ri.inits, next_oid)
           nxt == NextPos(reaction, frame.i, frame.j)
       IN  /\ reactant_dict' = IF Prefix(tup.id) = "s"
                               THEN ResetSpecies(reactant_dict, tup.id, unit_id, nu)
                               ELSE reactant_dict
           /\ protein_dict' = IF Prefix(tup.id) = "p"
                              THEN ResetSpecies(protein_dict, tup.id, unit_id, nu)
                              ELSE protein_dict
           /\ heap' = rr.heap
           /\ conc_registry' = ri.registry
           /\ next_oid' = next_oid + 1
           /\ reaction' = ReplaceElement(reaction, frame.i, tup.id, t)
           /\ frame' = [frame EXCEPT !.i = nxt.i, !.j = nxt.j, !.unit_r = CurUnit,
                                      !.nu_scale = nu]
    /\ UNCHANGED <<pre, runs>>

ProcessElem == ElemRaise \/ ElemSkip \/ ElemRescale

\* The loops are exhausted: the call returns normally.
Return ==
    /\ frame.pc = "loop"
    /\ frame.i = 3
    /\ frame' = [frame EXCEPT !.pc = "idle", !.outcome = "returned"]
    /\ UNCHANGED <<doc, pre, runs>>

\* What a specification of one part of the program leaves alone.
others == <<imp, meas, rest>>

Next ==
    \/ (\E reactant \in Targets, kind \in Kinds : Call(reactant, kind)) /\ UNCHANGED others
    \/ ElemRaise /\ UNCHANGED others
    \/ ElemSkip /\ UNCHANGED others
    \/ ElemRescale /\ UNCHANGED others
    \/ Return /\ UNCHANGED others

Spec == Init /\ [][Next]_vars

\* The same pass over documents that also hold a species whose id begins
\* with neither s nor p: nothing in unifyUnits or its caller refuses one.
InitAnyPrefix ==
    /\ DocInit(SpeciesIds \cup OtherIds)
    /\ imp = NoImport
    /\ meas = NoMeasurement
    /\ rest = NoRequests

SpecAnyPrefix == InitAnyPrefix /\ [][Next]_vars


(***************************************************************************)
(* What the properties below measure the pass against.  These read the     *)
(* document and the unit dictionary directly, not through the operators    *)
(* of the pass.                                                            *)
(***************************************************************************)
\* v times 10^d
Scaled(v, d) == IF v.m = 0 THEN v ELSE [m |-> v.m, e |-> v.e + d]

\* The species record of an id in a pair of tables.
SpeciesRec(rd, pd, id) == IF id \in DOMAIN rd THEN rd[id] ELSE pd[id]

Mentions(u, kind) == \E k \in DOMAIN UnitDict[u].units : UnitDict[u].units[k][1] = kind

\* The first base unit of the kind in a unit definition.
Component(u, kind) ==
    LET us == UnitDict[u].units
    IN  us[CHOOSE k \in DOMAIN us :
               us[k][1] = kind /\ \A m \in 1..(k - 1) : us[m][1] # kind]

\* The unit id of the target reactant.
RefUnit == reactant_dict[frame.reactant].unit

\* exponent_r * (scale_r - scale_ref) for the element the loops stand at.
ExpectedDelta ==
    LET c == Component(SpeciesRec(reactant_dict, protein_dict, Cur.id).unit, frame.kind)
    IN  c[2] * (c[3] - Component(RefUnit, frame.kind)[3])

\* The element at the position the loops stood at, after the step.
CurAfter == all_elems(reaction')[frame.i + 1][frame.j]

\* A call is over and it returned normally / raised.
Returned == frame.pc = "idle" /\ frame.outcome = "returned"
Raised == frame.pc = "idle" /\ frame.outcome = "raised"

(***************************************************************************)
(* C1: for every element the pass computes                                 *)
(* delta = exponent_r * (scale_r - scale_ref) from the species' current    *)
(* unit and the target's unit; when delta # 0 the species' initial         *)
(* concentration becomes its old value times 10^delta and its unit id      *)
(* becomes the target's unit id.                                           *)
(***************************************************************************)
C1_DeltaRescalesSpecies ==
    [][(ElemSkip \/ ElemRescale) =>
          LET d == ExpectedDelta
              old == SpeciesRec(reactant_dict, protein_dict, Cur.id)
              new == SpeciesRec(reactant_dict', protein_dict', Cur.id)
          IN  /\ frame'.nu_scale = d
              /\ d # 0 => /\ new.init_conc = Scaled(old.init_conc, d)
                          /\ new.unit = RefUnit
                          /\ new.unit = reactant_dict'[frame.reactant].unit]_vars

\* The spec's example: scale -3 against reference scale 0, exponent 1.
C1_Witness ==
    /\ frame.kind = "mole" /\ frame.nu_scale = -3
    /\ pre.reactant_dict["s0"].unit = "u0" /\ pre.reactant_dict["s1"].unit = "u1"
    /\ reactant_dict["s1"].unit = "u0"
    /\ reactant_dict["s1"].init_conc = [m |-> 7, e |-> -3]

(***************************************************************************)
(* C2: for an element with delta # 0, each replicate of the rewritten      *)
(* element is a new replicate with the original's values times 10^delta,   *)
(* the reference unit id, and the original's time values and time unit;    *)
(* same number of replicates, same order.                                  *)
(***************************************************************************)
C2_ReplicatesRescaled ==
    [][ElemRescale =>
          LET d == ExpectedDelta
              old == Cur.repls
              new == CurAfter.repls
          IN  /\ Len(new) = Len(old)
              /\ \A k \in DOMAIN old :
                    /\ new[k] \notin DOMAIN heap
                    /\ heap'[new[k]].replica = heap[old[k]].replica
                    /\ heap'[new[k]].data =
                          [n \in DOMAIN heap[old[k]].data |->
                              Scaled(heap[old[k]].data[n], d)]
                    /\ heap'[new[k]].data_unit = RefUnit
                    /\ heap'[new[k]].time = heap[old[k]].time
                    /\ heap'[new[k]].time_unit = heap[old[k]].time_unit]_vars

(***************************************************************************)
(* C3: for an element with delta # 0 each (value, unit) pair of its        *)
(* initial-concentration list is replaced, in order, by a pair whose value *)
(* is the original value times 10^delta, and exactly these pairs are       *)
(* registered through addConc, one registration per pair; an element with  *)
(* delta = 0 registers nothing.                                            *)
(***************************************************************************)
C3_InitsRescaledAndRegistered ==
    [][(ElemSkip \/ ElemRescale) =>
          LET d == ExpectedDelta
              old == Cur.inits
              new == CurAfter.inits
          IN  IF d # 0
              THEN /\ Len(new) = Len(old)
                   /\ \A k \in DOMAIN old : new[k][1] = Scaled(old[k][1], d)
                   /\ conc_registry' = conc_registry \o new
              ELSE conc_registry' = conc_registry]_vars

\* A rescaled element with a non-zero pair: its pairs are in the registry.
C3_Witness ==
    /\ Len(conc_registry) = PerElem
    /\ conc_registry[1][1] = Val(0)
    /\ conc_registry[PerElem][1].m # 0 /\ conc_registry[PerElem][1].e = 3


(***************************************************************************)
(* C4: after the pass returns normally every participant shares the        *)
(* reference scale for the kind: for every element the species' unit and   *)
(* the unit of every replicate the element holds have the scale the        *)
(* target's unit has.                                                      *)
(***************************************************************************)
SameScale(u, kind) ==
    Mentions(u, kind) /\ Component(u, kind)[3] = Component(RefUnit, kind)[3]

C4_AllShareReferenceScale ==
    Returned =>
        \A n \in 1..3 : \A k \in DOMAIN all_elems(reaction)[n] :
            LET el == all_elems(reaction)[n][k]
            IN  /\ SameScale(SpeciesRec(reactant_dict, protein_dict, el.id).unit,
                             frame.kind)
                /\ \A r \in DOMAIN el.repls :
                      SameScale(heap[el.repls[r]].data_unit, frame.kind)

(***************************************************************************)
(* C5: the pass is idempotent: a second call with the arguments of a call  *)
(* that returned normally computes delta = 0 for every element, raises     *)
(* nowhere, and leaves species, elements, replicates and the registry as   *)
(* the first call left them.                                               *)
(***************************************************************************)
SameArgsAgain ==
    /\ frame.pc = "loop"
    /\ pre.prev.outcome = "returned"
    /\ pre.prev.reactant = frame.reactant
    /\ pre.prev.kind = frame.kind

DocAsAtCall ==
    /\ reactant_dict = pre.reactant_dict /\ protein_dict = pre.protein_dict
    /\ reaction = pre.reaction /\ heap = pre.heap
    /\ conc_registry = pre.conc_registry

C5_Idempotent ==
    [][/\ (Returned /\ Call(frame.reactant, frame.kind)) => frame'.pc = "loop"
       /\ (SameArgsAgain /\ (ProcessElem \/ Return)) =>
             /\ ProcessElem => (ElemSkip /\ ExpectedDelta = 0 /\ frame'.nu_scale = 0)
             /\ UNCHANGED doc
             /\ DocAsAtCall']_vars

\* The second of two equal calls has returned, and the first had rescaled.
C5_Witness ==
    /\ Returned
    /\ pre.prev.outcome = "returned"
    /\ pre.prev.reactant = frame.reactant /\ pre.prev.kind = frame.kind
    /\ conc_registry # << >>
    /\ Len(reaction.educts) + Len(reaction.products) > 1

(***************************************************************************)
(* C6: an element whose delta is 0 (the target itself, for one) is left    *)
(* alone: species, element tuple object, replicate list, concentration     *)
(* list and registry are unchanged by its processing.                      *)
(***************************************************************************)
C6_ZeroDeltaTouchesNothing ==
    [][((ElemSkip \/ ElemRescale) /\ ExpectedDelta = 0) => UNCHANGED doc]_vars

\* The target, second educt, has just been passed over; the first was rescaled.
C6_Witness ==
    /\ frame.pc = "loop" /\ frame.nu_scale = 0
    /\ Len(reaction.educts) = 2 /\ reaction.educts[2].id = frame.reactant
    /\ <<frame.i, frame.j>> = <<3, 1>>
    /\ reaction.educts[1] # pre.reaction.educts[1]
    /\ reaction.educts[2] = pre.reaction.educts[2]

(***************************************************************************)
(* C7: positional identity: every step of the pass leaves each role list   *)
(* with its length and, at every index, its species id, stoichiometry and  *)
(* constant flag; a rewritten element is a new tuple stored at the index   *)
(* of its original, and no other index changes.                            *)
(***************************************************************************)
C7_PositionalIdentity ==
    [][ProcessElem =>
          /\ \A n \in 1..3 :
                LET old == all_elems(reaction)[n]
                    new == all_elems(reaction')[n]
                IN  /\ Len(new) = Len(old)
                    /\ \A k \in DOMAIN old :
                          /\ new[k].id = old[k].id
                          /\ new[k].stoich = old[k].stoich
                          /\ new[k].constant = old[k].constant
                          /\ <<n, k>> # <<frame.i + 1, frame.j>> => new[k] = old[k]
          /\ ElemRescale => CurAfter.oid = next_oid]_vars

\* The same species twice among the educts, the first of the two rewritten.
C7_Witness ==
    /\ Returned
    /\ Len(reaction.educts) = 2
    /\ reaction.educts[1].id = reaction.educts[2].id
    /\ reaction.educts[1].oid # pre.reaction.educts[1].oid
    /\ reaction.educts[1].stoich = 1 /\ reaction.educts[2].stoich = 2

(***************************************************************************)
(* C8: no existing Replicate is mutated: every Replicate object keeps its  *)
(* fields through every step, and a rewritten element references only     *)
(* objects constructed by that step.                                       *)
(***************************************************************************)
C8_ReplicatesNeverMutated ==
    [][/\ \A a \in DOMAIN heap : a \in DOMAIN heap' /\ heap'[a] = heap[a]
       /\ ElemRescale =>
             \A k \in DOMAIN CurAfter.repls :
                 /\ CurAfter.repls[k] \notin DOMAIN heap
                 /\ CurAfter.repls[k] \in DOMAIN heap']_vars

\* A pass has built new replicates next to the ones it found.
C8_Witness ==
    /\ Returned
    /\ Len(heap) > Len(pre.heap)
    /\ \A a \in DOMAIN pre.heap : heap[a].data # << >>
    /\ heap[Len(heap)].data_unit = RefUnit

(***************************************************************************)
(* C9: if the kind occurs in the unit of the target or of any participant  *)
(* not at all, the call does not return normally.                          *)
(***************************************************************************)
C9_MissingKindRaises ==
    Returned =>
        /\ Mentions(pre.reactant_dict[frame.reactant].unit, frame.kind)
        /\ \A n \in 1..3 : \A k \in DOMAIN all_elems(pre.reaction)[n] :
              Mentions(SpeciesRec(pre.reactant_dict, pre.protein_dict,
                                  all_elems(pre.reaction)[n][k].id).unit,
                       frame.kind)

\* The target has the kind, a later participant has not: raised in the loop.
C9_Witness ==
    /\ Raised
    /\ Mentions(pre.reactant_dict[frame.reactant].unit, frame.kind)
    /\ frame.unit_r # "unbound" /\ ~Mentions(frame.unit_r, frame.kind)
    /\ frame.j = 2

(***************************************************************************)
(* C10, as claimed: a participant whose unit has no component of the kind  *)
(* contributes no rescale, its records are untouched, and the pass goes on *)
(* with the remaining elements.                                            *)
(***************************************************************************)
KindAbsentHere ==
    /\ InLoop
    /\ ~Mentions(SpeciesRec(reactant_dict, protein_dict, Cur.id).unit, frame.kind)

C10_AbsentKindSkipped ==
    [][(KindAbsentHere /\ ProcessElem) =>
          /\ UNCHANGED doc
          /\ frame'.pc = "loop"
          /\ <<frame'.i, frame'.j>> # <<frame.i, frame.j>>]_vars

(***************************************************************************)
(* C10, amended: a participant whose unit has no component of the kind     *)
(* ends the call with a lookup failure when the loops reach it: its        *)
(* records are untouched and no later element is processed.                *)
(***************************************************************************)
C10_AbsentKindRaises ==
    [][(KindAbsentHere /\ ProcessElem) =>
          /\ UNCHANGED doc
          /\ frame'.pc = "idle" /\ frame'.outcome = "raised"
          /\ <<frame'.i, frame'.j>> = <<frame.i, frame.j>>]_vars

\* Raised at the first of two elements, after the target's own lookup succeeded.
C10_Witness ==
    /\ Raised
    /\ frame.unit_r # "unbound"
    /\ frame.i = FirstFrom(reaction, 0).i /\ frame.j = 1
    /\ NextPos(reaction, frame.i, frame.j).i < 3


(***************************************************************************)
(* C11: for every element the pass processes, whatever the first letter    *)
(* of its id, the unit definition the delta is computed from is the one    *)
(* of the element's own species; the unit definition read for an earlier   *)
(* element is never used for a later one.                                  *)
(***************************************************************************)
C11_OwnUnitUsed ==
    [][(ElemSkip \/ ElemRescale) =>
          LET own == SpeciesRec(reactant_dict, protein_dict, Cur.id).unit
          IN  /\ frame'.unit_r = own
              /\ frame'.nu_scale =
                     Component(own, frame.kind)[2]
                        * (Component(own, frame.kind)[3] - Component(RefUnit, frame.kind)[3])]_vars


(***************************************************************************)
(* C13: the pass keeps every referenced unit id in the unit dictionary:    *)
(* the unit id of every species, of every replicate a reaction element     *)
(* holds and of every initial-concentration pair of an element (and of     *)
(* the registry) is a key of the dictionary, before, during and after a    *)
(* call.                                                                   *)
(***************************************************************************)
C13_UnitIdsExist ==
    /\ \A id \in DOMAIN reactant_dict : reactant_dict[id].unit \in DOMAIN UnitDict
    /\ \A id \in DOMAIN protein_dict : protein_dict[id].unit \in DOMAIN UnitDict
    /\ \A n \in 1..3 : \A k \in DOMAIN all_elems(reaction)[n] :
          LET tup == all_elems(reaction)[n][k]
          IN  /\ \A r \in DOMAIN tup.repls :
                    heap[tup.repls[r]].data_unit \in DOMAIN UnitDict
              /\ \A r \in DOMAIN tup.inits : tup.inits[r][2] \in DOMAIN UnitDict
    /\ \A r \in DOMAIN conc_registry : conc_registry[r][2] \in DOMAIN UnitDict

\* A call that rewrote a protein and a reactant has returned.
C13_Witness ==
    /\ Returned
    /\ \E id \in DOMAIN protein_dict : protein_dict[id].unit # pre.protein_dict[id].unit
    /\ \E id \in DOMAIN reactant_dict : reactant_dict[id].unit # pre.reactant_dict[id].unit
    /\ Len(heap) > Len(pre.heap)
    /\ conc_registry # << >>



(***************************************************************************)
(* importEnzymeML(reaction_id, reactants, dirpath, enzmldoc) of the two    *)
(* thin layers, examples/ThinLayers/TL_Copasi.py and                       *)
(* pyenzyme/thinlayers/TL_Copasi.py, up to and including the fit items of  *)
(* run_parameter_estimation.  imp holds the layer, the position in the     *)
(* method, the calls made so far (log), the SBML text handed to the        *)
(* optimizer (the species tables as they were when it was written), the    *)
(* .tsv files written and the fit items added to the problem.              *)
(***************************************************************************)
Layers == {"examples", "packaged"}

\* The reactants argument: one id, or several.
Selections == { << "s0" >>, << "s0", "s1" >> }

\* reaction.getParameterObjects() after replace_kinetic_law: the two local
\* parameters of the rate law and one parameter that is not local.
ParameterObjects ==
    << [name |-> "Km", local |-> TRUE, value |-> [m |-> 1, e |-> -1]],
       [name |-> "quantity", local |-> FALSE, value |-> Val(1)],
       [name |-> "V", local |-> TRUE, value |-> Val(2)] >>

\* COPASI.CCommonName(str(x)): the bound is handed over as the text of x.
CCommonName(x) == [cn |-> x]

\* Faulty variant of ConcLowerBound: a tenth of the start value.
ConcLowerBoundTenth(concVal) == CCommonName(Times10(concVal, -1))

\* str(concVal * 0.01)
ConcLowerBound(concVal) == CCommonName(Times10(concVal, -2))

\* str(concVal * 100)
ConcUpperBound(concVal) == CCommonName(Times10(concVal, 2))

\* str(value * 0.0001)
ParamLowerBound(value) == CCommonName(Times10(value, -4))

\* str(value * 10000)
ParamUpperBound(value) == CCommonName(Times10(value, 4))

\* reaction.getEduct(reactant): the first educt with that id; KeyError without one.
HasEduct(id) == \E k \in DOMAIN reaction.educts : reaction.educts[k].id = id
getEduct(id) == reaction.educts[getIndex(reaction.educts, id)]

\* repl.getData(): the data series of the replicate; a replicate constructed
\* without one has none to give.
HasData(repl) == repl.data # << >>

StartImport(layer, reactants) ==
    [pc |-> "start", layer |-> layer, reactants |-> reactants, log |-> << >>,
     sbml |-> << >>, r |-> 1, k |-> 1, o |-> 1, files |-> {}, exps |-> << >>,
     items |-> << >>]

InitImport ==
    /\ DocInit(SpeciesIds)
    /\ \E layer \in Layers, reactants \in Selections : imp = StartImport(layer, reactants)
    /\ meas = NoMeasurement
    /\ rest = NoRequests

\* examples, lines 73-77: getReaction, then self.unifyUnits(reactants[0], reaction,
\* enzmldoc, 'mole'); an IndexError on the target's unit leaves importEnzymeML.
ImportUnifyCall ==
    /\ imp.pc = "start"
    /\ imp.layer = "examples"
    /\ Call(imp.reactants[1], "mole")
    /\ imp' = [imp EXCEPT !.pc = IF frame'.outcome = "raised" THEN "raised" ELSE "unifyUnits",
                          !.log = Append(@, "unifyUnits")]
    /\ UNCHANGED <<meas, rest>>

\* The pass at work on one element.
ImportUnifyElem ==
    /\ imp.pc = "unifyUnits"
    /\ ElemSkip \/ ElemRescale
    /\ UNCHANGED others

\* The pass raises: nothing in importEnzymeML catches it.
ImportUnifyRaise ==
    /\ imp.pc = "unifyUnits"
    /\ ElemRaise
    /\ imp' = [imp EXCEPT !.pc = "raised"]
    /\ UNCHANGED <<meas, rest>>

\* The pass returns to importEnzymeML.
ImportUnifyReturn ==
    /\ imp.pc = "unifyUnits"
    /\ Return
    /\ imp' = [imp EXCEPT !.pc = "unified", !.log = Append(@, "unifyUnits returned")]
    /\ UNCHANGED <<meas, rest>>

\* examples, lines 80-82, after the pass; packaged, lines 106-116, right after
\* getReaction (kind and scale are assigned and never used): the document is
\* written to SBML and the optimizer imports the text.
ImportSBML ==
    /\ \/ imp.layer = "examples" /\ imp.pc = "unified"
       \/ imp.layer = "packaged" /\ imp.pc = "start"
    /\ imp' = [imp EXCEPT !.pc = "experiments",
                          !.log = @ \o << "toXMLString", "importSBMLFromString" >>,
                          !.sbml = << [reactant_dict |-> reactant_dict,
                                       protein_dict |-> protein_dict] >>]
    /\ UNCHANGED <<doc, frame, pre, runs, meas, rest>>

\* The replicate the loops "for reactant in reactants: for i, repl in
\* enumerate(reaction.getEduct(reactant)[3])" stand at.
ImportRepl == heap[getEduct(imp.reactants[imp.r]).repls[imp.k]]

\* The position after it; past the last reactant the method goes on to
\* run_parameter_estimation.
ImportAdvance(m) ==
    IF m.k < Len(getEduct(m.reactants[m.r]).repls) THEN [m EXCEPT !.k = @ + 1]
    ELSE IF m.r < Len(m.reactants) THEN [m EXCEPT !.r = @ + 1, !.k = 1]
    ELSE [m EXCEPT !.pc = "estimate"]

\* reaction.getEduct(reactant) for a reactant that is no educt: KeyError.
ImportNoEduct ==
    /\ imp.pc = "experiments"
    /\ ~HasEduct(imp.reactants[imp.r])
    /\ imp' = [imp EXCEPT !.pc = "raised"]
    /\ UNCHANGED <<doc, frame, pre, runs, meas, rest>>

\* data = repl.getData() on a replicate that holds no series.
ImportNoData ==
    /\ imp.pc = "experiments"
    /\ HasEduct(imp.reactants[imp.r])
    /\ ~HasData(ImportRepl)
    /\ imp' = [imp EXCEPT !.pc = "raised"]
    /\ UNCHANGED <<doc, frame, pre, runs, meas, rest>>

\* Faulty variant of tsvpath: the replicate index is left out of the name.
tsvpathOfReactant(reactant, i) == "experiment_" \o reactant \o ".tsv"

\* os.path.join(dirpath, 'experiment_%s_%i.tsv' % (reactant, i)), within
\* the one dirpath of the call.
tsvpath(reactant, i) == "experiment_" \o reactant \o "_" \o ToString(i) \o ".tsv"

\* metab.getConcentrationReference().getCN()
ConcentrationReference(sbml_id) == << "Concentration", sbml_id >>

\* col_cn_map: the concentration reference of every metabolite of the
\* imported model whose id is among the reactants.
col_cn_map ==
    LET metabolites == DOMAIN imp.sbml[1].reactant_dict \cup DOMAIN imp.sbml[1].protein_dict
    IN  [id \in { m \in metabolites : \E n \in DOMAIN imp.reactants : imp.reactants[n] = m }
            |-> ConcentrationReference(id)]

\* The loop over ["time", species id]: the role of the column and, for a
\* dependent one, the object it is mapped to.
ObjectMapEntry(col) ==
    IF col = "time" THEN [role |-> "time"]
    ELSE IF col \in DOMAIN col_cn_map THEN [role |-> "dependent", cn |-> col_cn_map[col]]
    ELSE [role |-> "ignore"]

\* One pass of the inner loop: the .tsv file experiment_<reactant>_<i>.tsv,
\* the experiment that reads it, the fit item of the initial concentration
\* with the experiment's key, and the object map of the two columns.
ImportExperiment ==
    /\ imp.pc = "experiments"
    /\ HasEduct(imp.reactants[imp.r])
    /\ HasData(ImportRepl)
    /\ LET reactant == imp.reactants[imp.r]
           i == imp.k - 1
           speciesID == ImportRepl.reactant
           concVal == ImportRepl.init_conc
           key == Len(imp.exps) + 1
           exp == [key |-> key, file |-> tsvpath(reactant, i), columns |-> 2,
                   map |-> << ObjectMapEntry("time"), ObjectMapEntry(speciesID) >>]
           item == [of |-> "concentration", cn |-> reactant, start |-> concVal,
                    lower |-> ConcLowerBound(concVal),
                    upper |-> ConcUpperBound(concVal),
                    experiment |-> << key >>]
       IN  imp' = ImportAdvance([imp EXCEPT !.files = @ \cup { tsvpath(reactant, i) },
                                            !.exps = Append(@, exp),
                                            !.items = Append(@, item)])
    /\ UNCHANGED <<doc, frame, pre, runs, meas, rest>>

\* run_parameter_estimation, one pass of "for obj in objects": a fit item
\* for a local parameter of the reaction, nothing for any other.
EstimateItem ==
    /\ imp.pc = "estimate"
    /\ imp.o <= Len(ParameterObjects)
    /\ LET param == ParameterObjects[imp.o]
           item == [of |-> "parameter", cn |-> param.name, start |-> param.value,
                    lower |-> ParamLowerBound(param.value),
                    upper |-> ParamUpperBound(param.value),
                    experiment |-> << >>]
       IN  imp' = [imp EXCEPT !.o = @ + 1,
                              !.items = IF param.local THEN Append(@, item) ELSE @]
    /\ UNCHANGED <<doc, frame, pre, runs, meas, rest>>

\* The fit items are complete; the optimizer runs.
EstimateRun ==
    /\ imp.pc = "estimate"
    /\ imp.o > Len(ParameterObjects)
    /\ imp' = [imp EXCEPT !.pc = "done", !.log = Append(@, "process")]
    /\ UNCHANGED <<doc, frame, pre, runs, meas, rest>>

NextImport ==
    \/ ImportUnifyCall
    \/ ImportUnifyElem
    \/ ImportUnifyRaise
    \/ ImportUnifyReturn
    \/ ImportSBML
    \/ ImportNoEduct
    \/ ImportNoData
    \/ ImportExperiment
    \/ EstimateItem
    \/ EstimateRun

SpecImport == InitImport /\ [][NextImport]_vars

\* The place of the first occurrence of a call in the log, 0 without one.
FirstAt(log, call) ==
    IF \E n \in DOMAIN log : log[n] = call
    THEN CHOOSE n \in DOMAIN log : log[n] = call /\ \A m \in 1..(n - 1) : log[m] # call
    ELSE 0

(***************************************************************************)
(* C12: in importEnzymeML of either thin layer, the pass                   *)
(* unifyUnits(reactants[0], 'mole') has run to completion before the       *)
(* document is serialized to SBML and imported: whenever the SBML text     *)
(* has been written, the pass was called on reactants[0] with 'mole' and   *)
(* returned before, and the text holds the species as the pass left them.  *)
(***************************************************************************)
C12_UnifiedBeforeSBML ==
    imp.sbml # << >> =>
        /\ FirstAt(imp.log, "unifyUnits returned") > 0
        /\ FirstAt(imp.log, "unifyUnits returned") < FirstAt(imp.log, "toXMLString")
        /\ frame.reactant = imp.reactants[1] /\ frame.kind = "mole"
        /\ frame.outcome = "returned"
        /\ imp.sbml[1].reactant_dict = reactant_dict
        /\ imp.sbml[1].protein_dict = protein_dict

(***************************************************************************)
(* C19: every fit item added for an initial concentration with start       *)
(* value c has lower bound 0.01*c and upper bound 100*c; every fit item    *)
(* added for a kinetic parameter with current value v has start value v,   *)
(* lower bound 0.0001*v and upper bound 10000*v; there is no other fit     *)
(* item.                                                                   *)
(***************************************************************************)
C19_FitItemBounds ==
    \A n \in DOMAIN imp.items :
        LET item == imp.items[n]
        IN  \/ /\ item.of = "concentration"
               /\ item.lower.cn = Scaled(item.start, -2)
               /\ item.upper.cn = Scaled(item.start, 2)
            \/ /\ item.of = "parameter"
               /\ \E o \in DOMAIN ParameterObjects :
                     /\ ParameterObjects[o].name = item.cn
                     /\ item.start = ParameterObjects[o].value
               /\ item.lower.cn = Scaled(item.start, -4)
               /\ item.upper.cn = Scaled(item.start, 4)

\* Both layers get as far as the optimizer with fit items of both sorts,
\* one per replicate of the selected educt and one per local parameter.
C19_Witness ==
    /\ imp.pc = "done"
    /\ imp.layer = "examples"
    /\ \E n \in DOMAIN imp.items :
          imp.items[n].of = "concentration" /\ imp.items[n].start = Val(5)
                                            /\ imp.items[n].lower.cn = [m |-> 5, e |-> -2]
    /\ \E n \in DOMAIN imp.items :
          imp.items[n].of = "parameter" /\ imp.items[n].start = Val(2)
                                        /\ imp.items[n].upper.cn = [m |-> 2, e |-> 4]
    /\ Len(imp.items) = PerElem + 2



\* The kinds other than the requested one in which two unit definitions
\* differ by exponent or scale.
OtherKindsDiffering(u, v, kind) ==
    { k \in Kinds \ {kind} :
         Mentions(u, k) /\ Mentions(v, k) /\ Component(u, k) # Component(v, k) }

(***************************************************************************)
(* C26: when the delta of an element for the requested kind is not 0, the  *)
(* factor of the rescaling is 10^delta of that kind alone: the species'    *)
(* unit id becomes the target's unit id as a whole, and the initial        *)
(* concentration of the species, the replicates and the pairs of the       *)
(* initial-concentration list are multiplied by 10^delta, whatever the     *)
(* two unit definitions say about any other kind.                          *)
(***************************************************************************)
C26_FactorOfRequestedKindOnly ==
    [][((ElemSkip \/ ElemRescale) /\ ExpectedDelta # 0) =>
          LET d == ExpectedDelta
              old == SpeciesRec(reactant_dict, protein_dict, Cur.id)
              new == SpeciesRec(reactant_dict', protein_dict', Cur.id)
          IN  /\ new.unit = RefUnit
              /\ new.init_conc = Scaled(old.init_conc, d)
              /\ Len(CurAfter.repls) = Len(Cur.repls)
              /\ \A k \in DOMAIN Cur.repls :
                    /\ heap'[CurAfter.repls[k]].init_conc =
                          Scaled(heap[Cur.repls[k]].init_conc, d)
                    /\ heap'[CurAfter.repls[k]].data_unit = RefUnit
              /\ Len(CurAfter.inits) = Len(Cur.inits)
              /\ \A k \in DOMAIN Cur.inits :
                    CurAfter.inits[k][1] = Scaled(Cur.inits[k][1], d)]_vars

\* A species in mmole / ml was brought to the target's mole / l for the
\* kind mole: the litre components of the two units differ, and the
\* concentration moved by the three decades of the mole components only.
C26_Witness ==
    /\ Returned
    /\ frame.kind = "mole"
    /\ pre.reactant_dict["s0"].unit = "u0"
    /\ pre.reactant_dict["s1"].unit = "u1"
    /\ OtherKindsDiffering("u1", "u0", "mole") = {"litre"}
    /\ \E n \in 1..3 : \E k \in DOMAIN all_elems(reaction)[n] :
          /\ all_elems(reaction)[n][k].id = "s1"
          /\ all_elems(reaction)[n][k].repls # << >>
          /\ all_elems(reaction)[n][k].inits # << >>
    /\ reactant_dict["s1"].unit = "u0"
    /\ reactant_dict["s1"].init_conc = Scaled(pre.reactant_dict["s1"].init_conc, -3)

(***************************************************************************)
(* C27: when the pass rewrites the initial-concentration list of an        *)
(* element, every rewritten pair keeps the unit id of the pair it          *)
(* replaces: only the value changes, to the old value times 10^delta, the  *)
(* unit id is not set to the target's unit id, and the pair entered into   *)
(* the concentration registry carries that original unit id.               *)
(***************************************************************************)
C27_PairsKeepUnitId ==
    [][ElemRescale =>
          LET d == ExpectedDelta
              old == Cur.inits
              new == CurAfter.inits
              n == Len(conc_registry)
          IN  /\ Len(new) = Len(old)
              /\ Len(conc_registry') = n + Len(old)
              /\ \A k \in DOMAIN old :
                    /\ new[k][2] = old[k][2]
                    /\ new[k][1] = Scaled(old[k][1], d)
                    /\ conc_registry'[n + k][2] = old[k][2]
                    /\ conc_registry'[n + k][1] = Scaled(old[k][1], d)]_vars

\* The pairs of a rescaled element are in the registry with a unit id that
\* is not the target's, while the species now has the target's.
C27_Witness ==
    /\ Returned
    /\ conc_registry # << >>
    /\ \E k \in DOMAIN conc_registry :
          /\ conc_registry[k][2] # RefUnit
          /\ conc_registry[k][1].m # 0
          /\ conc_registry[k][1].e # 0
    /\ \E n \in 1..3 : \E k \in DOMAIN all_elems(reaction)[n] :
          LET el == all_elems(reaction)[n][k]
          IN  /\ el # all_elems(pre.reaction)[n][k]
              /\ el.inits # << >>
              /\ SpeciesRec(reactant_dict, protein_dict, el.id).unit = RefUnit
              /\ \A j \in DOMAIN el.inits : el.inits[j][2] # RefUnit

(***************************************************************************)
(* unifyUnits of the packaged thin layer (pyenzyme/thinlayers/TL_Copasi.py) *)
(* next to the one of the examples thin layer, on the same document and    *)
(* with the same arguments.                                                *)
(***************************************************************************)
\* The packaged unifyUnits: the target's unit is looked up and
\* next(filter(...)) takes its base unit of the kind, StopIteration without
\* one; the elements of the three lists are put into one list; the first
\* pass of "for index, reaction_element in enumerate(reaction_elements)"
\* evaluates "for tup in elem", and elem is a name the method never binds:
\* NameError.  Only a reaction without elements lets the method return.
packagedUnifyUnits(rd, r, reactant, kind) ==
    LET unit == rd[reactant].unit
        reaction_elements == r.educts \o r.products \o r.modifiers
    IN  IF ~HasKind(unit, kind) THEN [outcome |-> "raised", error |-> "StopIteration"]
        ELSE IF reaction_elements = << >> THEN [outcome |-> "returned", error |-> "none"]
        ELSE [outcome |-> "raised", error |-> "NameError"]

\* Nothing has been called yet.
NoLayerRun == [pc |-> "packaged"]

InitLayers ==
    /\ DocInit(SpeciesIds)
    /\ imp = NoLayerRun
    /\ meas = NoMeasurement
    /\ rest = NoRequests

\* The packaged method is called; it ends before it has written anything to
\* the document.
PackagedUnify(reactant, kind) ==
    /\ imp.pc = "packaged"
    /\ LET res == packagedUnifyUnits(reactant_dict, reaction, reactant, kind)
       IN  imp' = [pc |-> "examples", reactant |-> reactant, kind |-> kind,
                   outcome |-> res.outcome, error |-> res.error,
                   after |-> [reactant_dict |-> reactant_dict,
                              protein_dict |-> protein_dict,
                              reaction |-> reaction,
                              conc_registry |-> conc_registry]]
    /\ UNCHANGED <<doc, frame, pre, runs, meas, rest>>

\* The examples method is called on the same document with the same
\* arguments.
ExamplesUnify ==
    /\ imp.pc = "examples"
    /\ Call(imp.reactant, imp.kind)
    /\ imp' = [imp EXCEPT !.pc = "compared"]
    /\ UNCHANGED <<meas, rest>>

NextLayers ==
    \/ \E reactant \in Targets, kind \in Kinds : PackagedUnify(reactant, kind)
    \/ ExamplesUnify
    \/ ElemRaise /\ UNCHANGED others
    \/ ElemSkip /\ UNCHANGED others
    \/ ElemRescale /\ UNCHANGED others
    \/ Return /\ UNCHANGED others

SpecLayers == InitLayers /\ [][NextLayers]_vars

\* The number of elements of a reaction.
Participants(r) == Len(r.educts) + Len(r.products) + Len(r.modifiers)

(***************************************************************************)
(* C25: the packaged unifyUnits and the examples unifyUnits are            *)
(* equivalent: on every document, reaction with at least one element,      *)
(* target reactant and kind, both end the same way, by return or by error, *)
(* and after a return the species' concentrations and unit ids, the        *)
(* element lists of the reaction and the concentration registry are the    *)
(* same.                                                                   *)
(***************************************************************************)
C25_LayersEquivalent ==
    (imp.pc = "compared" /\ frame.pc = "idle" /\ Participants(pre.reaction) >= 1) =>
        /\ imp.outcome = frame.outcome
        /\ frame.outcome = "returned" =>
              /\ imp.after.reactant_dict = reactant_dict
              /\ imp.after.protein_dict = protein_dict
              /\ imp.after.reaction = reaction
              /\ imp.after.conc_registry = conc_registry

\* The pairs (reactant, replicate index) of a selection: every position of
\* the replicate list of the reactant's educt element, counted from 0.
ReplicatePairs(reactants) ==
    UNION { { << reactants[n], k - 1 >> : k \in DOMAIN getEduct(reactants[n]).repls } :
               n \in DOMAIN reactants }

\* The replicate at a pair.
ReplicateAt(pair) == heap[getEduct(pair[1]).repls[pair[2] + 1]]

\* The name the file of a pair is to have.
FileNameOf(pair) == "experiment_" \o pair[1] \o "_" \o ToString(pair[2]) \o ".tsv"

MaxCalls == 3

\* Python's None for an id argument.
None == "None"

\* What a caller passes as reactant_id or protein_id: nothing, the empty
\* string, or an id.
IdArgs == {None, "", "s0", "p0"}

\* The ids asked for through the getters.
AskedIds == {"s0", "p0"}

\* Replicate objects a caller holds: replica name, species id, time values
\* and time unit, measured values and their unit.
MeasReplicate(replica, reactant_id, time, time_unit) ==
    [replica |-> replica, reactant_id |-> reactant_id, time |-> time,
     time_unit |-> time_unit, data |-> [n \in DOMAIN time |-> Val(n)],
     data_unit |-> "u0"]

Replicates ==
    { MeasReplicate("a", "s0", << 0, 1 >>, "s"),
      MeasReplicate("b", "s0", << 0, 2 >>, "min"),
      MeasReplicate("c", "p0", << 0, 1 >>, "s") }

\* The replicates argument of addData, and of addReplicates.
ReplicateLists == { << >> } \cup { << r >> : r \in Replicates }
ReplicateBatches == { << r >> : r \in Replicates }
                       \cup { << rq[1], rq[2] >> :
                                 rq \in { x \in Replicates \X Replicates : x[1] # x[2] } }

\* MeasurementData(reactant_id, protein_id, init_conc, unit, replicates)
MeasurementData(reactant_id, protein_id, init_conc, unit, replicates) ==
    [reactant_id |-> reactant_id, protein_id |-> protein_id,
     init_conc |-> init_conc, unit |-> unit, replicates |-> replicates]

\* "if reactant_id": None and the empty string are false.
Truthy(id) == id # None /\ id # ""

\* dict[key] = value
SetItem(dict, key, value) == (key :> value) @@ dict

NoCall == [op |-> "none", args |-> << >>, outcome |-> "none", value |-> << >>]

NewMeasurement ==
    [pc |-> "ready", reactants |-> << >>, proteins |-> << >>,
     global_time |-> << >>, global_time_unit |-> None,
     calls |-> 0, last |-> NoCall]

\* No document is at hand: the Measurement is used on its own.
NoDocument ==
    /\ reactant_dict = << >>
    /\ protein_dict = << >>
    /\ reaction = [educts |-> << >>, products |-> << >>, modifiers |-> << >>]
    /\ heap = << >>
    /\ conc_registry = << >>
    /\ next_oid = 1
    /\ frame = IdleFrame
    /\ pre = [reactant_dict |-> << >>, protein_dict |-> << >>,
              reaction |-> [educts |-> << >>, products |-> << >>, modifiers |-> << >>],
              heap |-> << >>, conc_registry |-> << >>,
              prev |-> [reactant |-> "none", kind |-> "none", outcome |-> "none"]]
    /\ runs = 0

InitMeasurement ==
    /\ NoDocument
    /\ imp = NoImport
    /\ meas = NewMeasurement
    /\ rest = NoRequests

\* Faulty variant of appendReactantData: an entry that is there is kept.
appendReactantDataKeepsFirst(m, reactant_id, protein_id, init_conc, unit, replicates) ==
    LET measData == MeasurementData(reactant_id, protein_id, init_conc, unit, replicates)
    IN  IF Truthy(reactant_id)
        THEN [m |-> [m EXCEPT !.reactants = @ @@ (reactant_id :> measData)],
              outcome |-> "returned"]
        ELSE IF Truthy(protein_id)
        THEN [m |-> [m EXCEPT !.proteins = @ @@ (protein_id :> measData)],
              outcome |-> "returned"]
        ELSE [m |-> m, outcome |-> "ValueError"]

\* Faulty variant of appendReactantData: an empty string counts as an id.
appendReactantDataEmptyIsId(m, reactant_id, protein_id, init_conc, unit, replicates) ==
    LET measData == MeasurementData(reactant_id, protein_id, init_conc, unit, replicates)
    IN  IF reactant_id # None
        THEN [m |-> [m EXCEPT !.reactants = SetItem(@, reactant_id, measData)],
              outcome |-> "returned"]
        ELSE IF protein_id # None
        THEN [m |-> [m EXCEPT !.proteins = SetItem(@, protein_id, measData)],
              outcome |-> "returned"]
        ELSE [m |-> m, outcome |-> "ValueError"]

\* _appendReactantData: the MeasurementData is built, then stored under the
\* reactant id if there is one, else under the protein id if there is one,
\* else ValueError.
appendReactantData(m, reactant_id, protein_id, init_conc, unit, replicates) ==
    LET measData == MeasurementData(reactant_id, protein_id, init_conc, unit, replicates)
    IN  IF Truthy(reactant_id)
        THEN [m |-> [m EXCEPT !.reactants = SetItem(@, reactant_id, measData)],
              outcome |-> "returned"]
        ELSE IF Truthy(protein_id)
        THEN [m |-> [m EXCEPT !.proteins = SetItem(@, protein_id, measData)],
              outcome |-> "returned"]
        ELSE [m |-> m, outcome |-> "ValueError"]

\* addData(init_conc, unit, reactant_id, protein_id, replicates)
addData(init_conc, unit, reactant_id, protein_id, replicates) ==
    /\ meas.pc = "ready"
    /\ meas.calls < MaxCalls
    /\ LET res == appendReactantData(meas, reactant_id, protein_id, init_conc, unit,
                                     replicates)
       IN  meas' = [res.m EXCEPT
                       !.calls = @ + 1,
                       !.last = [op |-> "addData",
                                 args |-> << reactant_id, protein_id >>,
                                 outcome |-> res.outcome, value |-> << >>]]
    /\ UNCHANGED <<doc, frame, pre, runs, imp, rest>>

\* The loop of addReplicates from the k-th replicate on: the map is chosen by
\* the first letter of the replicate's species id, the replicate is added to
\* the MeasurementData stored there, and the first replicate added to a
\* measurement without a global time sets it; a species that is not in the
\* map ends the call with KeyError.
RECURSIVE AddLoop(_, _, _)
AddLoop(m, replicates, k) ==
    IF k > Len(replicates) THEN [m |-> m, outcome |-> "returned"]
    ELSE LET replicate == replicates[k]
             species_id == replicate.reactant_id
             isReactant == Prefix(species_id) = "s"
             speciesData == IF isReactant THEN m.reactants ELSE m.proteins
         IN  IF species_id \notin DOMAIN speciesData
             THEN [m |-> m, outcome |-> "KeyError"]
             ELSE LET added == [speciesData EXCEPT
                                   ![species_id].replicates = Append(@, replicate)]
                      m1 == IF isReactant THEN [m EXCEPT !.reactants = added]
                                          ELSE [m EXCEPT !.proteins = added]
                      m2 == IF Len(m1.global_time) = 0
                            THEN [m1 EXCEPT !.global_time = replicate.time,
                                            !.global_time_unit = replicate.time_unit]
                            ELSE m1
                  IN  AddLoop(m2, replicates, k + 1)

\* Faulty variant of addReplicates: a call that ends with KeyError adds
\* nothing.
addReplicatesAllOrNothing(replicates) ==
    /\ meas.pc = "ready"
    /\ meas.calls < MaxCalls
    /\ LET res == AddLoop(meas, replicates, 1)
           kept == IF res.outcome = "KeyError" THEN meas ELSE res.m
       IN  meas' = [kept EXCEPT
                       !.calls = @ + 1,
                       !.last = [op |-> "addReplicates", args |-> << >>,
                                 outcome |-> res.outcome, value |-> << >>]]
    /\ UNCHANGED <<doc, frame, pre, runs, imp, rest>>

\* Faulty variant of addReplicates: the last replicate of every call sets
\* the global time again.
addReplicatesResetsTime(replicates) ==
    /\ meas.pc = "ready"
    /\ meas.calls < MaxCalls
    /\ LET res == AddLoop(meas, replicates, 1)
           final == replicates[Len(replicates)]
       IN  meas' = [res.m EXCEPT
                       !.global_time = final.time,
                       !.global_time_unit = final.time_unit,
                       !.calls = @ + 1,
                       !.last = [op |-> "addReplicates", args |-> << >>,
                                 outcome |-> res.outcome, value |-> << >>]]
    /\ UNCHANGED <<doc, frame, pre, runs, imp, rest>>

\* addReplicates(replicates)
addReplicates(replicates) ==
    /\ meas.pc = "ready"
    /\ meas.calls < MaxCalls
    /\ LET res == AddLoop(meas, replicates, 1)
       IN  meas' = [res.m EXCEPT
                       !.calls = @ + 1,
                       !.last = [op |-> "addReplicates", args |-> << >>,
                                 outcome |-> res.outcome, value |-> << >>]]
    /\ UNCHANGED <<doc, frame, pre, runs, imp, rest>>

\* Faulty variant of getSpecies: only the reactants map is looked at.
getSpeciesReactantsOnly(m, species_id) ==
    IF species_id \in DOMAIN m.reactants
    THEN [outcome |-> "returned", value |-> << m.reactants[species_id] >>]
    ELSE [outcome |-> "SpeciesNotFoundError",
          value |-> << [species_id |-> species_id, enzymeml_part |-> "Measurement"] >>]

\* _getSpecies: the lookup in {**proteins, **reactants}, where an id of both
\* maps gives the entry of the reactants map; KeyError becomes
\* SpeciesNotFoundError(species_id, "Measurement").
getSpecies(m, species_id) ==
    LET all_species == m.reactants @@ m.proteins
    IN  IF species_id \in DOMAIN all_species
        THEN [outcome |-> "returned", value |-> << all_species[species_id] >>]
        ELSE [outcome |-> "SpeciesNotFoundError",
              value |-> << [species_id |-> species_id, enzymeml_part |-> "Measurement"] >>]

\* getReactant(reactant_id)
getReactant(reactant_id) ==
    /\ meas.pc = "ready"
    /\ meas.calls < MaxCalls
    /\ LET res == getSpecies(meas, reactant_id)
       IN  meas' = [meas EXCEPT
                       !.calls = @ + 1,
                       !.last = [op |-> "getReactant", args |-> << >>,
                                 outcome |-> res.outcome, value |-> res.value]]
    /\ UNCHANGED <<doc, frame, pre, runs, imp, rest>>

\* getProtein(protein_id)
getProtein(protein_id) ==
    /\ meas.pc = "ready"
    /\ meas.calls < MaxCalls
    /\ LET res == getSpecies(meas, protein_id)
       IN  meas' = [meas EXCEPT
                       !.calls = @ + 1,
                       !.last = [op |-> "getProtein", args |-> << >>,
                                 outcome |-> res.outcome, value |-> res.value]]
    /\ UNCHANGED <<doc, frame, pre, runs, imp, rest>>

\* The species_ids argument of exportData: a string or a list of ids.
SpeciesIdArgs ==
    { [str |-> TRUE, ids |-> "all"], [str |-> TRUE, ids |-> "p0"],
      [str |-> FALSE, ids |-> << "s0" >>], [str |-> FALSE, ids |-> << >>] }

\* The column headers: "time/<global_time_unit>" and
\* "<replica>/<species_id>/<data unit>".
TimeHeader(m) == << "time", "", m.global_time_unit >>
Header(replicate, species_id) == << replicate.replica, species_id, replicate.data_unit >>

\* MeasurementData._unit_id
UnitIdOf(data) == data.unit

\* pd.DataFrame(columns): columns of one length make a frame, columns of
\* different lengths raise ValueError.
DataFrame(columns) ==
    IF \A g, h \in DOMAIN columns : Len(columns[g]) = Len(columns[h])
    THEN [outcome |-> "returned", frame |-> columns]
    ELSE [outcome |-> "ValueError", frame |-> << >>]

EmptyFrame == << >>

\* _combineReplicates(measurement_species, species_ids): a string becomes a
\* one-element list; the columns start with the global time; every
\* replicate of a species that is in the list, or of every species if the
\* list is ["all"], gives a column under its header and, in the same loop
\* over the replicates, the species' entry of initial_concentration; the
\* frame is built when there is more than the time column.
combineReplicates(m, measurement_species, species_ids) ==
    LET ids == IF species_ids.str THEN << species_ids.ids >> ELSE species_ids.ids
        chosen == { k \in DOMAIN measurement_species :
                       (\E n \in DOMAIN ids : ids[n] = k) \/ ids = << "all" >> }
        reps(k) == measurement_species[k].replicates
        headers == UNION { { Header(reps(k)[n], k) : n \in DOMAIN reps(k) } : k \in chosen }
        filled(h) ==
            LET at == { n \in DOMAIN reps(h[2]) : Header(reps(h[2])[n], h[2]) = h }
                final == CHOOSE n \in at : \A o \in at : o <= n
            IN  reps(h[2])[final].data
        columns == [h \in headers \cup {TimeHeader(m)} |->
                       IF h \in headers THEN filled(h) ELSE m.global_time]
        initial_concentration ==
            [k \in { c \in chosen : reps(c) # << >> } |->
                << measurement_species[k].init_conc, UnitIdOf(measurement_species[k]) >>]
        built == IF Cardinality(DOMAIN columns) > 1
                 THEN DataFrame(columns)
                 ELSE [outcome |-> "returned", frame |-> EmptyFrame]
    IN  [outcome |-> built.outcome, data |-> built.frame,
         initConc |-> initial_concentration]

\* exportData(species_ids): the proteins are combined, then the reactants.
exportData(species_ids) ==
    /\ meas.pc = "ready"
    /\ meas.calls < MaxCalls
    /\ LET proteins == combineReplicates(meas, meas.proteins, species_ids)
           reactants == combineReplicates(meas, meas.reactants, species_ids)
           raised == proteins.outcome = "ValueError" \/ reactants.outcome = "ValueError"
       IN  meas' = [meas EXCEPT
                       !.calls = @ + 1,
                       !.last = [op |-> "exportData", args |-> << species_ids >>,
                                 outcome |-> IF raised THEN "ValueError" ELSE "returned",
                                 value |-> IF raised THEN << >>
                                           ELSE << [proteins |-> [data |-> proteins.data,
                                                                  initConc |-> proteins.initConc],
                                                    reactants |-> [data |-> reactants.data,
                                                                   initConc |-> reactants.initConc]] >>]]
    /\ UNCHANGED <<doc, frame, pre, runs, imp, rest>>

NextMeasurement ==
    \/ \E reactant_id \in IdArgs, protein_id \in IdArgs, replicates \in ReplicateLists :
          addData(Val(1), "u0", reactant_id, protein_id, replicates)
    \/ \E replicates \in ReplicateBatches : addReplicates(replicates)
    \/ \E id \in AskedIds : getReactant(id)
    \/ \E id \in AskedIds : getProtein(id)

SpecMeasurement == InitMeasurement /\ [][NextMeasurement]_vars

\* addData is called again and again with at least one id: what was measured,
\* for which ids, with which replicates.
Measured == { << Val(1), "u0" >>, << Val(2), "u1" >> }
IdPairs == { << "s0", None >>, << "s0", "p0" >>, << None, "p0" >>, << "", "p0" >>,
             << "s1", None >> }
FewReplicateLists == { << >>, << MeasReplicate("a", "s0", << 0, 1 >>, "s") >> }

NextAddData ==
    \E measured \in Measured, ids \in IdPairs, replicates \in FewReplicateLists :
        addData(measured[1], measured[2], ids[1], ids[2], replicates)

SpecAddData == InitMeasurement /\ [][NextAddData]_vars

\* The measurement is filled and exported.
NextExport ==
    \/ \E reactant_id \in IdArgs, protein_id \in IdArgs, replicates \in ReplicateLists :
          addData(Val(1), "u0", reactant_id, protein_id, replicates)
    \/ \E replicates \in ReplicateBatches : addReplicates(replicates)
    \/ \E species_ids \in SpeciesIdArgs : exportData(species_ids)

SpecExport == InitMeasurement /\ [][NextExport]_vars


\* What the properties of the Measurement are stated in.
\* An id was given: neither None nor the empty string.
Given(id) == id \notin {None, ""}

\* The entries of both maps: (map, key, MeasurementData).
Entries(m) ==
    { << "reactants", k, m.reactants[k] >> : k \in DOMAIN m.reactants }
        \cup { << "proteins", k, m.proteins[k] >> : k \in DOMAIN m.proteins }

\* The first letter of a key.
FirstLetter(key) ==
    CASE key \in {"s0", "s1"} -> "s"
      [] key \in {"p0"} -> "p"
      [] OTHER -> "other"

\* Every replicate the measurement holds.
StoredReplicates(m) ==
    UNION { { e[3].replicates[n] : n \in DOMAIN e[3].replicates } : e \in Entries(m) }

\* A call left species_dict and the global time as they were.
MeasurementUnchanged ==
    /\ meas'.reactants = meas.reactants
    /\ meas'.proteins = meas.proteins
    /\ meas'.global_time = meas.global_time
    /\ meas'.global_time_unit = meas.global_time_unit

(***************************************************************************)
(* C14: getReactant(id) and getProtein(id) raise                           *)
(* SpeciesNotFoundError(species_id = id, enzymeml_part = "Measurement")    *)
(* exactly when id is a key of neither map; otherwise they return the      *)
(* MeasurementData stored under id.  The measurement is unchanged either   *)
(* way.                                                                    *)
(***************************************************************************)
C14_GetSpecies ==
    [][\A id \in AskedIds :
          (getReactant(id) \/ getProtein(id)) =>
              LET inReactants == id \in DOMAIN meas.reactants
                  inProteins == id \in DOMAIN meas.proteins
                  got == meas'.last
              IN  /\ got.outcome \in {"returned", "SpeciesNotFoundError"}
                  /\ got.outcome = "SpeciesNotFoundError" <=> (~inReactants /\ ~inProteins)
                  /\ got.outcome = "SpeciesNotFoundError" =>
                        got.value = << [species_id |-> id, enzymeml_part |-> "Measurement"] >>
                  /\ got.outcome = "returned" =>
                        \/ inReactants /\ got.value = << meas.reactants[id] >>
                        \/ inProteins /\ got.value = << meas.proteins[id] >>
                  /\ MeasurementUnchanged]_vars

\* getReactant was asked for an id that is a key of the proteins map only.
C14_Witness ==
    /\ meas.last.op = "getReactant"
    /\ meas.last.outcome = "returned"
    /\ "p0" \in DOMAIN meas.proteins
    /\ "p0" \notin DOMAIN meas.reactants
    /\ "s0" \in DOMAIN meas.reactants
    /\ meas.last.value = << meas.proteins["p0"] >>
    /\ meas.proteins["p0"] # meas.reactants["s0"]

(***************************************************************************)
(* C15: addData with neither a reactant id nor a protein id (each None or  *)
(* the empty string) raises ValueError and leaves both maps as they were;  *)
(* with at least one of them it raises no ValueError and stores exactly    *)
(* one entry.                                                              *)
(***************************************************************************)
C15_AddDataStoresOne ==
    [][(meas'.last.op = "addData" /\ meas'.calls = meas.calls + 1) =>
          LET reactant_id == meas'.last.args[1]
              protein_id == meas'.last.args[2]
          IN  IF ~Given(reactant_id) /\ ~Given(protein_id)
              THEN /\ meas'.last.outcome = "ValueError"
                   /\ MeasurementUnchanged
              ELSE /\ meas'.last.outcome = "returned"
                   /\ \E e \in Entries(meas') :
                         /\ e[2] \in {reactant_id, protein_id}
                         /\ e[3].reactant_id = reactant_id
                         /\ e[3].protein_id = protein_id
                         /\ Entries(meas') \ {e} \subseteq Entries(meas)
                         /\ \A old \in Entries(meas) :
                               old \in Entries(meas') \/ (old[1] = e[1] /\ old[2] = e[2])]_vars

\* A call without ids was refused on a measurement that held an entry, and
\* before it a call with both ids had stored one entry.
C15_Witness ==
    /\ meas.last.op = "addData"
    /\ meas.last.outcome = "ValueError"
    /\ Cardinality(Entries(meas)) = 1
    /\ \E e \in Entries(meas) : Given(e[3].reactant_id) /\ Given(e[3].protein_id)

(***************************************************************************)
(* C16: after any sequence of addData calls, with any reactant_id and      *)
(* protein_id, both at once included, every key of the reactants map       *)
(* begins with s, every key of the proteins map begins with p, and no id   *)
(* is a key of both maps.                                                  *)
(***************************************************************************)
C16_KeysByPrefix ==
    /\ \A k \in DOMAIN meas.reactants : FirstLetter(k) = "s"
    /\ \A k \in DOMAIN meas.proteins : FirstLetter(k) = "p"
    /\ DOMAIN meas.reactants \cap DOMAIN meas.proteins = {}

(***************************************************************************)
(* C17: whenever the measurement holds at least one replicate, global_time *)
(* is not empty and is the time values of every replicate it holds, and    *)
(* global_time_unit is their time unit.                                    *)
(***************************************************************************)
C17_GlobalTimeShared ==
    StoredReplicates(meas) # {} =>
        /\ meas.global_time # << >>
        /\ \A r \in StoredReplicates(meas) :
              /\ r.time = meas.global_time
              /\ r.time_unit = meas.global_time_unit



(***************************************************************************)
(* The REST handlers exportData.get (pyenzyme/restful/exportData.py) and   *)
(* Validate.get (pyenzyme/restful/validate.py).  rest holds the files on   *)
(* disk under read_temp and validate_temp and the requests the server is   *)
(* handling, each with its handler, its position in get(), the keys of     *)
(* its JSON body, the path of its temp file, the template it was           *)
(* validated with and the response it got.                                 *)
(***************************************************************************)
\* The most requests the server handles in one behaviour.
MaxRequests == 2

Requests == 1..MaxRequests

\* next(tempfile._get_candidate_names()): a random name, whatever is on disk.
CandidateNames == {"n1", "n2"}

\* file.filename: none selected, an .omex archive, something else.
Filenames == {"", "doc.omex", "doc.zip"}

NewRequest ==
    [handler |-> "none", pc |-> "new", body |-> {}, tmp |-> << >>,
     template |-> "none", response |-> "none"]

InitRest ==
    /\ NoDocument
    /\ imp = NoImport
    /\ meas = NoMeasurement
    /\ rest = [pc |-> "serving", files |-> {}, reqs |-> [q \in Requests |-> NewRequest]]

\* return jsonify({"response": text}), or the Response at the end of get()
Respond(q, text) ==
    rest' = [rest EXCEPT !.reqs[q].pc = "responded", !.reqs[q].response = text]

\* An exception leaves get(): nothing in the handler catches it.
Raise(q) ==
    rest' = [rest EXCEPT !.reqs[q].pc = "raised", !.reqs[q].response = "exception"]

\* with open(tmp, 'wb') as f: f.write(file), tmp a candidate name under dir
WriteTemp(q, handler, dir, name, body) ==
    rest' = [rest EXCEPT !.files = @ \cup { << dir, name >> },
                         !.reqs[q] = [@ EXCEPT !.handler = handler, !.pc = "written",
                                               !.body = body, !.tmp = << dir, name >>]]

\* Validate.get, lines 36-77: the tests of the request, then the upload is
\* written to a temp file under validate_temp.
ValidateReceive(q, has_omex, has_json, has_custom, keys, filename, name) ==
    /\ rest.reqs[q].pc = "new"
    /\ LET body == IF has_json THEN keys ELSE {"custom"}
       IN  IF ~has_omex THEN Respond(q, "No file part")
           ELSE IF ~has_json /\ ~has_custom THEN Respond(q, "No template has been provided")
           ELSE IF has_json /\ "link" \notin keys /\ "custom" \notin keys
                THEN Respond(q, "No validate link/json part")
           ELSE IF filename = "" THEN Respond(q, "No file selected")
           ELSE IF filename # "doc.omex" THEN Respond(q, "None")
           ELSE WriteTemp(q, "validate", "validate_temp", name, body)
    /\ UNCHANGED <<doc, frame, pre, runs, imp, meas>>

\* exportData.get, lines 34-60: the tests of the request, then the upload is
\* written to a temp file under read_temp.
ExportReceive(q, has_omex, has_json, keys, filename, name) ==
    /\ rest.reqs[q].pc = "new"
    /\ IF ~has_omex THEN Respond(q, "No file part")
       ELSE IF ~has_json THEN Respond(q, "No json part")
       ELSE IF filename = "" THEN Respond(q, "No file selected")
       ELSE IF filename # "doc.omex" THEN Respond(q, "None")
       ELSE WriteTemp(q, "export", "read_temp", name, keys)
    /\ UNCHANGED <<doc, frame, pre, runs, imp, meas>>

\* enzmldoc = EnzymeMLReader().readFromFile(tmp): the document, or an
\* exception for an archive the reader cannot read.
ReadFromFile(q, readable) ==
    /\ rest.reqs[q].pc = "written"
    /\ IF readable THEN rest' = [rest EXCEPT !.reqs[q].pc = "read"] ELSE Raise(q)
    /\ UNCHANGED <<doc, frame, pre, runs, imp, meas>>

\* Faulty variant of Template: a custom template goes before a link.
TemplateCustomFirst(body) ==
    IF "custom" \in body THEN "custom" ELSE IF "link" \in body THEN "link" ELSE "none"

\* if 'link' in body.keys(): validate(link=...) elif 'custom' in body.keys():
\* validate(JSON=...)
Template(body) ==
    IF "link" \in body THEN "link" ELSE IF "custom" \in body THEN "custom" ELSE "none"

\* Validate.get, lines 85-89: the document is validated against the link, or
\* else against the custom template; validate may raise.
ValidateDoc(q, valid) ==
    /\ rest.reqs[q].pc = "read"
    /\ rest.reqs[q].handler = "validate"
    /\ IF valid
       THEN rest' = [rest EXCEPT !.reqs[q].pc = "processed",
                                 !.reqs[q].template = Template(rest.reqs[q].body)]
       ELSE rest' = [rest EXCEPT !.reqs[q].pc = "raised",
                                 !.reqs[q].response = "exception",
                                 !.reqs[q].template = Template(rest.reqs[q].body)]
    /\ UNCHANGED <<doc, frame, pre, runs, imp, meas>>

\* exportData.get, lines 66-98: reac = enzmldoc.getReaction(body['reaction'])
\* raises KeyError without the key or without such a reaction; the loops
\* over the reactants keep their own KeyErrors.
ExportLookup(q, known) ==
    /\ rest.reqs[q].pc = "read"
    /\ rest.reqs[q].handler = "export"
    /\ IF "reaction" \in rest.reqs[q].body /\ known
       THEN rest' = [rest EXCEPT !.reqs[q].pc = "processed"]
       ELSE Raise(q)
    /\ UNCHANGED <<doc, frame, pre, runs, imp, meas>>

\* os.remove(tmp), which raises when no such file is there, and the Response.
RemoveTemp(q) ==
    /\ rest.reqs[q].pc = "processed"
    /\ IF rest.reqs[q].tmp \in rest.files
       THEN rest' = [rest EXCEPT !.files = @ \ { rest.reqs[q].tmp },
                                 !.reqs[q].pc = "responded",
                                 !.reqs[q].response = "json"]
       ELSE Raise(q)
    /\ UNCHANGED <<doc, frame, pre, runs, imp, meas>>

\* The parts of a request that get() looks at.  A part that the handler never
\* reads on its path is left out: the custom file next to a JSON body, the
\* body's keys without a body, the file name without an upload.
NextRest ==
    \/ \E q \in Requests, has_omex \in BOOLEAN, has_json \in BOOLEAN, name \in CandidateNames :
          \E has_custom \in (IF has_json THEN {FALSE} ELSE BOOLEAN),
             keys \in (IF has_json THEN SUBSET {"link", "custom"} ELSE {{}}),
             filename \in (IF has_omex THEN Filenames ELSE {""}) :
             ValidateReceive(q, has_omex, has_json, has_custom, keys, filename, name)
    \/ \E q \in Requests, has_omex \in BOOLEAN, has_json \in BOOLEAN, name \in CandidateNames :
          \E keys \in (IF has_json THEN SUBSET {"reaction", "reactants"} ELSE {{}}),
             filename \in (IF has_omex THEN Filenames ELSE {""}) :
             ExportReceive(q, has_omex, has_json, keys, filename, name)
    \/ \E q \in Requests, readable \in BOOLEAN : ReadFromFile(q, readable)
    \/ \E q \in Requests, valid \in BOOLEAN : ValidateDoc(q, valid)
    \/ \E q \in Requests, known \in BOOLEAN : ExportLookup(q, known)
    \/ \E q \in Requests : RemoveTemp(q)

SpecRest == InitRest /\ [][NextRest]_vars

\* get() is over for a request, by a return or by an exception.
Over(q) == rest.reqs[q].pc \in {"responded", "raised"}

(***************************************************************************)
(* C18: in exportData.get and Validate.get the temp file written for the   *)
(* uploaded archive is removed on every exit path: once get() is over for  *)
(* a request, by its response or by an exception from reading the          *)
(* archive, from the reaction lookup or from validation, the file it       *)
(* wrote is no longer on disk.                                             *)
(***************************************************************************)
C18_TempFileRemoved ==
    \A q \in Requests :
        (Over(q) /\ rest.reqs[q].tmp # << >>
                 /\ \A o \in Requests \ {q} : rest.reqs[o].tmp # rest.reqs[q].tmp)
            => rest.reqs[q].tmp \notin rest.files

(***************************************************************************)
(* C20: in Validate.get, a body with both "link" and "custom" is validated *)
(* with the link; the custom template is used only when there is no link;  *)
(* and whenever the handler reaches the validation step the body holds at  *)
(* least one of the two keys.                                              *)
(***************************************************************************)
C20_LinkBeforeCustom ==
    \A q \in Requests :
        LET r == rest.reqs[q]
        IN  r.handler = "validate" =>
               /\ r.pc \in {"written", "read"} => (r.body \cap {"link", "custom"}) # {}
               /\ r.template = "link" => "link" \in r.body
               /\ r.template = "custom" => ("custom" \in r.body /\ "link" \notin r.body)
               /\ (r.pc = "processed" \/ (r.pc = "responded" /\ r.response = "json"))
                     => r.template \in {"link", "custom"}

\* A body with both keys has been validated, with the link.
C20_Witness ==
    \E q \in Requests :
        /\ rest.reqs[q].handler = "validate"
        /\ rest.reqs[q].pc = "responded"
        /\ rest.reqs[q].body = {"link", "custom"}
        /\ rest.reqs[q].template = "link"


\* The replicate is added by a call on m: its id is a key of the map its
\* first letter selects.
Addable(m, r) ==
    IF FirstLetter(r.reactant_id) = "s" THEN r.reactant_id \in DOMAIN m.reactants
                                        ELSE r.reactant_id \in DOMAIN m.proteins

\* A call left the global time and its unit as they were.
GlobalTimeUnchanged ==
    /\ meas'.global_time = meas.global_time
    /\ meas'.global_time_unit = meas.global_time_unit

(***************************************************************************)
(* C21: addReplicates sets global_time and global_time_unit only while     *)
(* global_time is empty, and then from the replicate it is adding: on a    *)
(* measurement without a global time the first replicate of the call that  *)
(* is added gives both.  Once global_time is not empty, no call of         *)
(* addReplicates or addData changes either of them.                        *)
(***************************************************************************)
C21_GlobalTimeSetOnce ==
    [][/\ meas.global_time # << >> => GlobalTimeUnchanged
       /\ meas'.last.op # "addReplicates" => GlobalTimeUnchanged
       /\ \A replicates \in ReplicateBatches :
             (addReplicates(replicates) /\ meas.global_time = << >>) =>
                 IF Addable(meas, replicates[1])
                 THEN /\ meas'.global_time = replicates[1].time
                      /\ meas'.global_time_unit = replicates[1].time_unit
                 ELSE GlobalTimeUnchanged]_vars

\* The global time came from the first replicate added, and a replicate
\* with other time values and another unit was added after it.
C21_Witness ==
    /\ meas.last.op = "addReplicates"
    /\ meas.last.outcome = "returned"
    /\ meas.global_time = << 0, 1 >>
    /\ meas.global_time_unit = "s"
    /\ \E r \in StoredReplicates(meas) :
          r.time = << 0, 2 >> /\ r.time_unit = "min"

\* The position of the first replicate of the list that a call on m does
\* not add, one past the end if there is none.
FirstRefused(m, replicates) ==
    CHOOSE k \in 1..(Len(replicates) + 1) :
        /\ k <= Len(replicates) => ~Addable(m, replicates[k])
        /\ \A j \in 1..(k - 1) : Addable(m, replicates[j])

\* The replicates before position k that belong under the key of the map,
\* in list order.
GoingTo(replicates, k, map, key) ==
    LET mine(r) == /\ r.reactant_id = key
                   /\ (map = "reactants") <=> (FirstLetter(key) = "s")
    IN  SelectSeq(SubSeq(replicates, 1, k - 1), mine)

(***************************************************************************)
(* C22: addReplicates goes through the replicates in list order and adds   *)
(* each to the MeasurementData under its species id, in the reactants map  *)
(* if the id begins with s and in the proteins map otherwise.  At the      *)
(* first replicate whose id is not a key of that map it raises KeyError:   *)
(* the replicates before it stay added, that one and the later ones are    *)
(* not added.  Without such a replicate it returns with all of them added. *)
(***************************************************************************)
C22_AddedUpToFirstMissing ==
    [][\A replicates \in ReplicateBatches :
          addReplicates(replicates) =>
              LET k == FirstRefused(meas, replicates)
              IN  /\ meas'.last.outcome =
                        (IF k <= Len(replicates) THEN "KeyError" ELSE "returned")
                  /\ DOMAIN meas'.reactants = DOMAIN meas.reactants
                  /\ DOMAIN meas'.proteins = DOMAIN meas.proteins
                  /\ \A key \in DOMAIN meas.reactants :
                        meas'.reactants[key] =
                            [meas.reactants[key] EXCEPT !.replicates =
                                @ \o GoingTo(replicates, k, "reactants", key)]
                  /\ \A key \in DOMAIN meas.proteins :
                        meas'.proteins[key] =
                            [meas.proteins[key] EXCEPT !.replicates =
                                @ \o GoingTo(replicates, k, "proteins", key)]]_vars

\* A call of two replicates added the first and raised KeyError at the
\* second: the measurement was new, one addData call defined the species
\* without replicates, and the global time came from the replicate added.
C22_Witness ==
    /\ meas.calls = 2
    /\ meas.last.op = "addReplicates"
    /\ meas.last.outcome = "KeyError"
    /\ meas.global_time # << >>
    /\ Cardinality(StoredReplicates(meas)) = 1


\* The keys of a map that an exportData argument selects: all of them for
\* "all", otherwise the ids it names.
SelectedKeys(map, species_ids) ==
    { k \in DOMAIN map :
         IF species_ids.str THEN species_ids.ids \in {"all", k}
         ELSE \E n \in DOMAIN species_ids.ids : species_ids.ids[n] = k }

\* What exportData is to return for one map.
ExportedAsSelected(m, map, species_ids, out) ==
    LET sel == SelectedKeys(map, species_ids)
        cols == UNION { { << map[k].replicates[n].replica, k,
                             map[k].replicates[n].data_unit >> :
                               n \in DOMAIN map[k].replicates } : k \in sel }
    IN  /\ DOMAIN out.initConc = sel
        /\ \A k \in sel : out.initConc[k] = << map[k].init_conc, map[k].unit >>
        /\ IF cols = {} THEN out.data = << >>
           ELSE /\ DOMAIN out.data = cols \cup { << "time", "", m.global_time_unit >> }
                /\ out.data[<< "time", "", m.global_time_unit >>] = m.global_time
                /\ \A h \in cols :
                      \E n \in DOMAIN map[h[2]].replicates :
                         /\ map[h[2]].replicates[n].replica = h[1]
                         /\ map[h[2]].replicates[n].data = out.data[h]

(***************************************************************************)
(* C23: exportData(species_ids) returns, for the proteins and for the      *)
(* reactants, the initial concentration and the replicate data of the      *)
(* selected species of that map, all species for "all" and the listed ids  *)
(* otherwise: initConc has the entry (init_conc, unit id) of every         *)
(* selected species of the map and of no other, data has one column per    *)
(* replicate of a selected species and the global time column and no       *)
(* other, and data is an empty frame when no replicate is selected.        *)
(***************************************************************************)
C23_ExportSelected ==
    meas.last.op = "exportData" =>
        IF meas.last.outcome # "returned" THEN FALSE
        ELSE /\ ExportedAsSelected(meas, meas.proteins, meas.last.args[1],
                                   meas.last.value[1].proteins)
             /\ ExportedAsSelected(meas, meas.reactants, meas.last.args[1],
                                   meas.last.value[1].reactants)

(***************************************************************************)
(* C28: addData is last-write-wins per species id: a call for an id that   *)
(* is already a key of the map it goes to replaces the MeasurementData     *)
(* there, initial concentration, unit and replicate list, by the new one   *)
(* and leaves every other entry of both maps as it was; a call with both   *)
(* a reactant id and a protein id stores the entry under the reactant id   *)
(* in the reactants map only.                                              *)
(***************************************************************************)
C28_LastWriteWins ==
    [][\A measured \in Measured, replicates \in FewReplicateLists :
          LET reactant_id == meas'.last.args[1]
              protein_id == meas'.last.args[2]
              new == [reactant_id |-> reactant_id, protein_id |-> protein_id,
                      init_conc |-> measured[1], unit |-> measured[2],
                      replicates |-> replicates]
          IN  addData(measured[1], measured[2], reactant_id, protein_id, replicates) =>
                  IF Given(reactant_id)
                  THEN /\ DOMAIN meas'.reactants = DOMAIN meas.reactants \cup {reactant_id}
                       /\ meas'.reactants[reactant_id] = new
                       /\ \A k \in DOMAIN meas.reactants \ {reactant_id} :
                             meas'.reactants[k] = meas.reactants[k]
                       /\ meas'.proteins = meas.proteins
                  ELSE /\ Given(protein_id)
                       /\ DOMAIN meas'.proteins = DOMAIN meas.proteins \cup {protein_id}
                       /\ meas'.proteins[protein_id] = new
                       /\ \A k \in DOMAIN meas.proteins \ {protein_id} :
                             meas'.proteins[k] = meas.proteins[k]
                       /\ meas'.reactants = meas.reactants]_vars

\* Three calls, each of which stored an entry, left one entry: s0 was
\* written three times.  The last call named both ids, its entry is under
\* s0 in the reactants map and the proteins map has no p0.
C28_Witness ==
    /\ meas.calls = 3
    /\ meas.last.op = "addData"
    /\ meas.last.args = << "s0", "p0" >>
    /\ DOMAIN meas.reactants = {"s0"}
    /\ DOMAIN meas.proteins = {}
    /\ meas.reactants["s0"].init_conc = Val(2)
    /\ meas.reactants["s0"].unit = "u1"
    /\ meas.reactants["s0"].replicates = << >>

\* get() holds a temp file path for a request: the upload is written and
\* os.remove has not been reached.
InFlight(q) == rest.reqs[q].pc \in {"written", "read", "processed"}

(***************************************************************************)
(* C29: when invocations of exportData.get and Validate.get overlap, each  *)
(* reads and removes only the temp file it wrote: no two invocations of    *)
(* one handler that are in flight use the same temp file path, and the     *)
(* file an invocation wrote stays on disk until that invocation has read   *)
(* it.                                                                     *)
(***************************************************************************)
C29_OwnTempFileOnly ==
    /\ \A q, o \in Requests :
          (q # o /\ InFlight(q) /\ InFlight(o)
                 /\ rest.reqs[q].handler = rest.reqs[o].handler)
              => rest.reqs[q].tmp # rest.reqs[o].tmp
    /\ \A q \in Requests :
          rest.reqs[q].pc = "written" => rest.reqs[q].tmp \in rest.files

=============================================================================
